---- MODULE Spec2Model ----
(***************************************************************************)
(* Model of the binance_lighter_arb trading engine:                        *)
(*   core/strategy.py           ArbStrategy (quote and hedge calculators)  *)
(*   core/engine.py             TradeEngine (refresh loop, fill handler)   *)
(*   exchanges/binance_client.py  execution listener                       *)
(*   exchanges/lighter_client.py  order book formatting, hedge orders      *)
(*                                                                         *)
(* Python floats are modelled as binary floating point numbers with a      *)
(* Prec-bit significand and round-to-nearest-even, [m |-> significand,     *)
(* e |-> exponent] standing for m * 2^e.  Decimal strings ("100.10",       *)
(* "0.5") are modelled as [n |-> digits, k |-> decimals] standing for      *)
(* n / 10^k.                                                               *)
(***************************************************************************)
EXTENDS Integers, Sequences, FiniteSets, TLC

\* ------------------------------------------------------------------ bounds
Prec == 8            \* significand bits of the modelled float
MaxPriceTenths == 6  \* reference prices of the calculator runs: 0.1 .. 0.6
MaxMsgs == 2         \* messages the user socket delivers in one run
MaxQtyHundredths == 999  \* str(float) searches the decimals 0.01 .. 9.99

\* --------------------------------------------------- floating point numbers
Abs(n) == IF n < 0 THEN -n ELSE n

Sgn(n) == IF n < 0 THEN -1 ELSE IF n = 0 THEN 0 ELSE 1

RECURSIVE BitLen(_)
BitLen(n) == IF n = 0 THEN 0 ELSE 1 + BitLen(n \div 2)

Max(a, b) == IF a >= b THEN a ELSE b

Min(a, b) == IF a <= b THEN a ELSE b

FZero == [m |-> 0, e |-> 0]

\* The one element of a singleton.  Operands are bound through singletons
\* below so that each is evaluated once.
Only(S) == CHOOSE v \in S : TRUE

\* n * 2^e rounded to Prec bits, for n # 0 with bit length L
RoundBits(n, e, L) ==
  IF L <= Prec
  THEN [m |-> n * 2^(Prec - L), e |-> e - (Prec - L)]
  ELSE Only({IF q + up = 2^Prec
             THEN [m |-> Sgn(n) * 2^(Prec - 1), e |-> e + (L - Prec) + 1]
             ELSE [m |-> Sgn(n) * (q + up), e |-> e + (L - Prec)] :
             q \in {Abs(n) \div 2^(L - Prec)},
             up \in {IF \/ Abs(n) % 2^(L - Prec) > 2^(L - Prec - 1)
                        \/ /\ Abs(n) % 2^(L - Prec) = 2^(L - Prec - 1)
                           /\ (Abs(n) \div 2^(L - Prec)) % 2 = 1
                     THEN 1 ELSE 0}})

\* The float nearest to n * 2^e (ties to even), n an exact integer.
RoundInt(n, e) ==
  Only({IF nv = 0 THEN FZero ELSE RoundBits(nv, ev, BitLen(Abs(nv))) :
        nv \in {n}, ev \in {e}})

FromInt(n) == RoundInt(n, 0)

FNeg(x) == Only({[m |-> -a.m, e |-> a.e] : a \in {x}})

FMul(x, y) == Only({RoundInt(a.m * b.m, a.e + b.e) : a \in {x}, b \in {y}})

\* x + y; an operand below a quarter of the other's last place is absorbed.
FAdd(x, y) ==
  Only({IF a.m = 0 THEN b
        ELSE IF b.m = 0 THEN a
        ELSE IF a.e - b.e > Prec + 2 THEN a
        ELSE IF b.e - a.e > Prec + 2 THEN b
        ELSE RoundInt(a.m * 2^(a.e - Min(a.e, b.e)) + b.m * 2^(b.e - Min(a.e, b.e)),
                      Min(a.e, b.e)) :
        a \in {x}, b \in {y}})

FSub(x, y) == FAdd(x, FNeg(y))

\* The float nearest to (n / d) * 2^e for exact integers n and d > 0: the
\* quotient is taken to Prec + 2 bits and a sticky bit stands for the rest.
RoundDiv(n, d, e) ==
  Only({IF nv = 0 THEN FZero
        ELSE Only({RoundInt(Sgn(nv) * (2 * ((Abs(nv) * 2^s) \div dv)
                                       + (IF (Abs(nv) * 2^s) % dv = 0 THEN 0 ELSE 1)),
                            e - s - 1) :
                   s \in {Max(0, Prec + 2 + BitLen(dv) - BitLen(Abs(nv)))}}) :
        nv \in {n}, dv \in {d}})

\* x / y, y # 0 (Python raises ZeroDivisionError for y = 0)
FDiv(x, y) ==
  Only({RoundDiv(a.m * Sgn(b.m), Abs(b.m), a.e - b.e) : a \in {x}, b \in {y}})

\* sign of the exact difference x - y
FCmp(x, y) ==
  Only({IF a.m = 0 THEN -Sgn(b.m)
        ELSE IF b.m = 0 THEN Sgn(a.m)
        ELSE IF Sgn(a.m) # Sgn(b.m) THEN Sgn(a.m)
        ELSE IF a.e - b.e > Prec + 2 THEN Sgn(a.m)
        ELSE IF b.e - a.e > Prec + 2 THEN -Sgn(b.m)
        ELSE Sgn(a.m * 2^(a.e - Min(a.e, b.e)) - b.m * 2^(b.e - Min(a.e, b.e))) :
        a \in {x}, b \in {y}})

FLt(x, y) == FCmp(x, y) < 0

FLe(x, y) == FCmp(x, y) <= 0

\* float("n/10^k"): the float nearest to the decimal [n, k]
ParseFloat(d) == Only({RoundDiv(v.n, 10^v.k, 0) : v \in {d}})

None == [none |-> TRUE]

\* dict.get(key, default)
Get(d, key, default) == IF key \in DOMAIN d THEN d[key] ELSE default

Dec(n, k) == [n |-> n, k |-> k]

\* ------------------------------------------------------ core/strategy.py
\* ArbStrategy.__init__
ArbStrategy(min_profit_pct, binance_fee_pct, lighter_fee_pct) ==
  [min_profit_pct  |-> min_profit_pct,
   binance_fee_pct |-> binance_fee_pct,
   lighter_fee_pct |-> lighter_fee_pct]

FOne == FromInt(1)

\* A variant of calculate_binance_maker_prices that multiplies by the maker
\* fee factor where the formula divides.
calculate_binance_maker_prices_times_fee(self, lighter_bid, lighter_ask) ==
  LET sell_num == FMul(lighter_ask,
                       FAdd(FAdd(FOne, self.lighter_fee_pct), self.min_profit_pct))
      sell_den == FSub(FOne, self.binance_fee_pct)
      buy_num  == FMul(lighter_bid,
                       FSub(FSub(FOne, self.lighter_fee_pct), self.min_profit_pct))
      buy_den  == FAdd(FOne, self.binance_fee_pct)
  IN IF sell_den.m = 0 \/ buy_den.m = 0
     THEN [raised |-> "ZeroDivisionError"]
     ELSE [bid |-> FMul(buy_num, buy_den), ask |-> FMul(sell_num, sell_den)]

\* ArbStrategy.calculate_binance_maker_prices; 1 - binance_fee_pct = 0
\* raises ZeroDivisionError
calculate_binance_maker_prices(self, lighter_bid, lighter_ask) ==
  LET sell_num == FMul(lighter_ask,
                       FAdd(FAdd(FOne, self.lighter_fee_pct), self.min_profit_pct))
      sell_den == FSub(FOne, self.binance_fee_pct)
      buy_num  == FMul(lighter_bid,
                       FSub(FSub(FOne, self.lighter_fee_pct), self.min_profit_pct))
      buy_den  == FAdd(FOne, self.binance_fee_pct)
  IN IF sell_den.m = 0 \/ buy_den.m = 0
     THEN [raised |-> "ZeroDivisionError"]
     ELSE [bid |-> FDiv(buy_num, buy_den), ask |-> FDiv(sell_num, sell_den)]

\* A variant of get_hedge_order_details that keeps the side of the fill.
get_hedge_order_details_same_side(binance_fill) ==
  LET side     == Get(binance_fill, "S", "None")
      quantity == ParseFloat(Get(binance_fill, "l", Dec(0, 0)))
  IN [side |-> IF side = "BUY" THEN "BUY" ELSE "SELL", quantity |-> quantity]

\* A variant of get_hedge_order_details that reads the quantity under a key
\* the report does not carry and so gets the default.
get_hedge_order_details_wrong_key(binance_fill) ==
  LET side       == Get(binance_fill, "S", "None")
      quantity   == ParseFloat(Get(binance_fill, "last", Dec(0, 0)))
      hedge_side == IF side = "BUY" THEN "SELL" ELSE "BUY"
  IN [side |-> hedge_side, quantity |-> quantity]

\* ArbStrategy.get_hedge_order_details
get_hedge_order_details(binance_fill) ==
  LET side       == Get(binance_fill, "S", "None")
      quantity   == ParseFloat(Get(binance_fill, "l", Dec(0, 0)))
      hedge_side == IF side = "BUY" THEN "SELL" ELSE "BUY"
  IN [side |-> hedge_side, quantity |-> quantity]

\* ------------------------------------------------- utils/config_loader.py
\* config_template["strategy"]: min_profit_pct 0.001, binance_fee_pct 0.001,
\* lighter_fee_pct 0.0
ConfigStrategy ==
  ArbStrategy(ParseFloat(Dec(1, 3)), ParseFloat(Dec(1, 3)), ParseFloat(Dec(0, 1)))

\* ------------------------------------------------------------ environment
\* Trades of the quoting venue, by trade id: two partial fills of order 7
\* and one fill of order 8.  'l' is the last filled quantity, a decimal string.
Trades ==
  [t \in 1..3 |->
     [e |-> "executionReport", x |-> "TRADE",
      i |-> IF t = 3 THEN 8 ELSE 7,
      t |-> t,
      S |-> IF t = 3 THEN "SELL" ELSE "BUY",
      X |-> IF t = 1 THEN "PARTIALLY_FILLED" ELSE "FILLED",
      l |-> IF t = 1 THEN Dec(5, 1) ELSE IF t = 2 THEN Dec(3, 1) ELSE Dec(15, 1)]]

\* What the user socket can deliver: any trade report, any number of times
\* (at-least-once delivery), and reports that are not fills.
Messages ==
  {Trades[t] : t \in 1..3}
    \cup {[e |-> "executionReport", x |-> "NEW", i |-> 7, t |-> -1,
           S |-> "BUY", X |-> "NEW", l |-> Dec(0, 1)],
          [e |-> "outboundAccountPosition"]}

FillId(m) == <<m.i, m.t>>

\* What the Lighter SDK's get_orderbook can return: price levels are
\* dicts of decimal strings; either list may be empty or missing.
Level(p) == [price |-> Dec(p, 1), remaining_base_amount |-> Dec(2, 0)]

RawBooks ==
  {[bids |-> <<Level(10)>>, asks |-> <<Level(11)>>],
   [bids |-> <<Level(10), Level(9)>>, asks |-> <<Level(12), Level(13)>>],
   [bids |-> <<>>, asks |-> <<Level(11)>>],
   [bids |-> <<Level(10)>>, asks |-> <<>>],
   [bids |-> <<>>, asks |-> <<>>],
   [asks |-> <<Level(11)>>],
   [bids |-> <<Level(10)>>]}

Sides == {"bid", "ask"}

\* ------------------------------------------------------------------ state
VARIABLES
  is_running,        \* TradeEngine.is_running
  active_orders,     \* TradeEngine.active_orders
  strategy,          \* TradeEngine.strategy
  binance_connected, \* BinanceClientWrapper.client is set
  lighter_connected, \* LighterClientWrapper.client is set
  main_pc,           \* position of start() / update_quotes()
  ob,                \* update_quotes: ob
  targets,           \* update_quotes: targets
  cycle,             \* how the last update_quotes call ended
  managed,           \* sides handed to manage_binance_order in this cycle
  binance_orders,    \* resting orders on the quoting venue, per side
  listener_pc,       \* position of start_execution_listener / on_binance_fill
  msg,               \* start_execution_listener: msg
  hedge_params,      \* on_binance_fill: hedge_params
  delivered,         \* messages delivered by the user socket so far
  received,          \* TRADE reports the listener has received, in order
  hedges,            \* lighter.create_order calls of the fill handler, in order
  calc_pc,           \* position of a calculator run
  calc_in,           \* inputs of the calculator run
  calc_out,          \* result of the calculator run
  stop_called        \* a caller has invoked engine.stop()

engine_vars == <<is_running, active_orders, strategy, binance_connected,
                 lighter_connected, main_pc, ob, targets, cycle, managed,
                 binance_orders>>

listener_vars == <<listener_pc, msg, hedge_params, delivered, received, hedges>>

calc_vars == <<calc_pc, calc_in, calc_out>>

caller_vars == <<stop_called>>

vars == <<engine_vars, listener_vars, calc_vars, caller_vars>>

\* One event loop runs both tasks: a task keeps the loop until its next await.
MainSuspended ==
  main_pc \in {"init", "connect_binance", "await_ob", "sleep", "crashed", "stopped"}

ListenerSuspended ==
  listener_pc \in {"not_started", "subscribing", "recv", "await_hedge", "sleep", "dead"}

\* ------------------------------------------------------ str(float)
RECURSIVE NumDigits(_)
NumDigits(c) == IF c = 0 THEN 0 ELSE 1 + NumDigits(c \div 10)

\* significant digits of the decimal c/100: trailing zeros do not count
RECURSIVE SigDigits(_)
SigDigits(c) ==
  IF c = 0 THEN 0
  ELSE IF c % 10 = 0 THEN SigDigits(c \div 10)
  ELSE NumDigits(c)

\* numerator of |c/100 - f| over the common denominator 100 * 2^(-f.e)
StrDistance(c, f) == Abs(c * 2^(-f.e) - f.m * 100)

\* str(f) of a float 0 <= f < 10: the shortest decimal that reads back as f,
\* the nearest to f among the shortest; "0.0" for zero.
FloatStrOf(f) ==
  IF f.m = 0 THEN Dec(0, 1)
  ELSE LET C == {c \in 1..MaxQtyHundredths : ParseFloat(Dec(c, 2)) = f}
           Better(c, d) ==
             \/ SigDigits(c) < SigDigits(d)
             \/ /\ SigDigits(c) = SigDigits(d)
                /\ StrDistance(c, f) <= StrDistance(d, f)
       IN Dec(CHOOSE c \in C : \A d \in C : Better(c, d), 2)

QtyFloats == {ParseFloat(Get(m, "l", Dec(0, 0))) : m \in Messages}

\* str() of the quantities the socket can report, computed once
RECURSIVE Tabulate(_)
Tabulate(S) ==
  IF S = {} THEN <<>>
  ELSE Only({(f :> FloatStrOf(f)) @@ Tabulate(S \ {f}) : f \in {CHOOSE g \in S : TRUE}})

FloatStrTable == Tabulate(QtyFloats)

FloatStr(f) == FloatStrTable[f]

\* two decimals with the same value
DecEq(a, b) == a.n * 10^b.k = b.n * 10^a.k

\* ----------------------------------------------- exchanges/lighter_client.py
\* LighterClientWrapper.get_orderbook: the formatting of the SDK's answer
FormatOrderbook(raw_ob) ==
  LET fmt(levels) ==
        [j \in DOMAIN levels |->
           <<ParseFloat(levels[j].price),
             ParseFloat(Get(levels[j], "remaining_base_amount", Dec(0, 0)))>>]
  IN [bids |-> fmt(Get(raw_ob, "bids", <<>>)),
      asks |-> fmt(Get(raw_ob, "asks", <<>>))]

\* LighterClientWrapper.create_order: the request handed to the SDK
lighter_create_order(side, order_type, quantity) ==
  [call |-> IF order_type = "MARKET" THEN "create_market_order"
                                     ELSE "create_limit_order_batch",
   side |-> IF side = "BUY" THEN "OrderSide.BUY" ELSE "OrderSide.SELL",
   human_readable_size  |-> FloatStr(quantity),
   human_readable_price |-> Dec(0, 0)]

\* ------------------------------------------------------- core/engine.py
\* A variant of the early-return test that forgets the bids.
BookUnusable_asks_only(book) ==
  \/ book = None
  \/ "asks" \notin DOMAIN book
  \/ book.asks = <<>>

\* update_quotes: `if not ob or not ob.get('asks') or not ob.get('bids')`
BookUnusable(book) ==
  \/ book = None
  \/ "asks" \notin DOMAIN book
  \/ book.asks = <<>>
  \/ "bids" \notin DOMAIN book
  \/ book.bids = <<>>

\* update_quotes lines 54-55: ob['asks'][0][0] and ob['bids'][0][0]; a
\* missing key or an empty list raises
BestPrices(book) ==
  IF "asks" \notin DOMAIN book \/ "bids" \notin DOMAIN book
  THEN [raised |-> "KeyError"]
  ELSE IF book.asks = <<>> \/ book.bids = <<>>
  THEN [raised |-> "IndexError"]
  ELSE [best_ask |-> book.asks[1][1], best_bid |-> book.bids[1][1]]

\* A variant of manage_binance_order that places a new order at the target
\* and records it, without cancelling the one already resting.
manage_binance_order_places(orders, venue, side, price, order_key) ==
  [active_orders  |-> [orders EXCEPT ![order_key] = [side |-> side, price |-> price]],
   binance_orders |-> [venue EXCEPT ![order_key] =
                         @ \cup {[side |-> side, price |-> price]}]]

\* TradeEngine.manage_binance_order: the body is `pass`; the result is the
\* engine's record and the quoting venue's resting orders after the call.
manage_binance_order(orders, venue, side, price, order_key) ==
  [active_orders |-> orders, binance_orders |-> venue]

\* ------------------------------------------------------------------ Init
Init ==
  /\ is_running = FALSE
  /\ active_orders = [bid |-> None, ask |-> None]
  /\ strategy = ConfigStrategy
  /\ binance_connected = FALSE
  /\ lighter_connected = FALSE
  /\ main_pc = "init"
  /\ ob = None
  /\ targets = None
  /\ cycle = "none"
  /\ managed = {}
  /\ binance_orders = [s \in Sides |-> {}]
  /\ listener_pc = "not_started"
  /\ msg = None
  /\ hedge_params = None
  /\ delivered = 0
  /\ received = <<>>
  /\ hedges = <<>>
  /\ calc_pc = "off"
  /\ calc_in = None
  /\ calc_out = None
  /\ stop_called = FALSE

\* a TRADE execution report
IsFill(m) == Get(m, "e", "None") = "executionReport" /\ Get(m, "x", "None") = "TRADE"

\* A variant of the listener's filter that waits for the order to be
\* completely filled.
ListenerPasses_filled_only(m) ==
  IF Get(m, "e", "None") = "executionReport"
  THEN Get(m, "X", "None") = "FILLED"
  ELSE FALSE

\* A variant of the listener's filter that passes every execution report,
\* whatever its execution type.
ListenerPasses_any_report(m) == Get(m, "e", "None") = "executionReport"

\* start_execution_listener lines 59-61: the messages handed to the callback
ListenerPasses(m) ==
  IF Get(m, "e", "None") = "executionReport"
  THEN Get(m, "x", "None") = "TRADE"
  ELSE FALSE

\* on_binance_fill returns: nothing of the handler's frame is stored on the
\* engine, hedge_params goes with the frame
on_fill_exit(params) == None

\* ------------------------------------------------- TradeEngine.start
\* A variant of start() that launches the listener and the loop without
\* connecting the adapters first.
Start_spawn_first ==
  /\ main_pc = "init"
  /\ is_running' = TRUE
  /\ main_pc' = "spawn"
  /\ UNCHANGED <<active_orders, strategy, binance_connected, lighter_connected,
                 ob, targets, cycle, managed, binance_orders>>
  /\ UNCHANGED <<listener_vars, calc_vars, caller_vars>>

\* start(): is_running = True, then `await self.binance.connect()`
Start ==
  /\ main_pc = "init"
  /\ is_running' = TRUE
  /\ main_pc' = "connect_binance"
  /\ UNCHANGED <<active_orders, strategy, binance_connected, lighter_connected,
                 ob, targets, cycle, managed, binance_orders>>
  /\ UNCHANGED <<listener_vars, calc_vars, caller_vars>>

\* BinanceClientWrapper.connect returns, or raises out of start()
BinanceConnect ==
  /\ main_pc = "connect_binance"
  /\ ListenerSuspended
  /\ \/ /\ binance_connected' = TRUE
        /\ main_pc' = "connect_lighter"
     \/ /\ binance_connected' = FALSE
        /\ main_pc' = "crashed"
  /\ UNCHANGED <<is_running, active_orders, strategy, lighter_connected,
                 ob, targets, cycle, managed, binance_orders>>
  /\ UNCHANGED <<listener_vars, calc_vars, caller_vars>>

\* LighterClientWrapper.connect returns, or raises out of start()
LighterConnect ==
  /\ main_pc = "connect_lighter"
  /\ ListenerSuspended
  /\ \/ /\ lighter_connected' = TRUE
        /\ main_pc' = "spawn"
     \/ /\ lighter_connected' = FALSE
        /\ main_pc' = "crashed"
  /\ UNCHANGED <<is_running, active_orders, strategy, binance_connected,
                 ob, targets, cycle, managed, binance_orders>>
  /\ UNCHANGED <<listener_vars, calc_vars, caller_vars>>

\* asyncio.create_task(self.binance.start_execution_listener(self.on_binance_fill))
SpawnListener ==
  /\ main_pc = "spawn"
  /\ listener_pc = "not_started"
  /\ listener_pc' = "subscribing"
  /\ main_pc' = "loop"
  /\ UNCHANGED <<is_running, active_orders, strategy, binance_connected,
                 lighter_connected, ob, targets, cycle, managed, binance_orders>>
  /\ UNCHANGED <<msg, hedge_params, delivered, received, hedges>>
  /\ UNCHANGED <<calc_vars, caller_vars>>

\* `while self.is_running:` then update_quotes up to `await get_orderbook`
LoopTest ==
  /\ main_pc = "loop"
  /\ ListenerSuspended
  /\ main_pc' = IF is_running THEN "await_ob" ELSE "stopped"
  /\ managed' = {}
  /\ UNCHANGED <<is_running, active_orders, strategy, binance_connected,
                 lighter_connected, ob, targets, cycle, binance_orders>>
  /\ UNCHANGED <<listener_vars, calc_vars, caller_vars>>

\* lighter.get_orderbook returns the formatted book, or raises
GetOrderbookReturn ==
  /\ main_pc = "await_ob"
  /\ ListenerSuspended
  /\ \/ \E raw_ob \in RawBooks :
          /\ ob' = FormatOrderbook(raw_ob)
          /\ main_pc' = "check_book"
          /\ cycle' = cycle
     \/ /\ ob' = None
        /\ cycle' = "raised"
        /\ main_pc' = "except"
  /\ UNCHANGED <<is_running, active_orders, strategy, binance_connected,
                 lighter_connected, targets, managed, binance_orders>>
  /\ UNCHANGED <<listener_vars, calc_vars, caller_vars>>

\* A variant of update_quotes that goes to the ask side right after the
\* targets, and so ends the cycle with the bid side not handled.
CheckBook_ask_first ==
  /\ main_pc = "check_book"
  /\ ListenerSuspended
  /\ IF BookUnusable(ob)
     THEN /\ cycle' = "skipped"
          /\ targets' = None
          /\ ob' = None
          /\ main_pc' = "sleep"
     ELSE LET top == BestPrices(ob)
              t == IF "raised" \in DOMAIN top THEN top
                   ELSE calculate_binance_maker_prices(strategy, top.best_bid,
                                                       top.best_ask)
          IN IF "raised" \in DOMAIN t
             THEN /\ cycle' = "raised"
                  /\ targets' = None
                  /\ ob' = None
                  /\ main_pc' = "except"
             ELSE /\ targets' = t
                  /\ cycle' = cycle
                  /\ ob' = ob
                  /\ main_pc' = "manage_ask"
  /\ UNCHANGED <<is_running, active_orders, strategy, binance_connected,
                 lighter_connected, managed, binance_orders>>
  /\ UNCHANGED <<listener_vars, calc_vars, caller_vars>>

\* update_quotes lines 51-58: the early return, or the targets
CheckBook ==
  /\ main_pc = "check_book"
  /\ ListenerSuspended
  /\ IF BookUnusable(ob)
     THEN /\ cycle' = "skipped"
          /\ targets' = None
          /\ ob' = None
          /\ main_pc' = "sleep"
     ELSE LET top == BestPrices(ob)
              t == IF "raised" \in DOMAIN top THEN top
                   ELSE calculate_binance_maker_prices(strategy, top.best_bid,
                                                       top.best_ask)
          IN IF "raised" \in DOMAIN t
             THEN /\ cycle' = "raised"
                  /\ targets' = None
                  /\ ob' = None
                  /\ main_pc' = "except"
             ELSE /\ targets' = t
                  /\ cycle' = cycle
                  /\ ob' = ob
                  /\ main_pc' = "manage_bid"
  /\ UNCHANGED <<is_running, active_orders, strategy, binance_connected,
                 lighter_connected, managed, binance_orders>>
  /\ UNCHANGED <<listener_vars, calc_vars, caller_vars>>

\* update_quotes line 62: manage_binance_order("BUY", targets['bid'], "bid")
ManageBid ==
  /\ main_pc = "manage_bid"
  /\ ListenerSuspended
  /\ LET r == manage_binance_order(active_orders, binance_orders,
                                   "BUY", targets.bid, "bid")
     IN /\ active_orders' = r.active_orders
        /\ binance_orders' = r.binance_orders
  /\ managed' = managed \cup {"bid"}
  /\ main_pc' = "manage_ask"
  /\ UNCHANGED <<is_running, strategy, binance_connected, lighter_connected,
                 ob, targets, cycle>>
  /\ UNCHANGED <<listener_vars, calc_vars, caller_vars>>

\* update_quotes line 63: manage_binance_order("SELL", targets['ask'], "ask");
\* update_quotes returns and start() reaches `await asyncio.sleep(1)`
ManageAsk ==
  /\ main_pc = "manage_ask"
  /\ ListenerSuspended
  /\ LET r == manage_binance_order(active_orders, binance_orders,
                                   "SELL", targets.ask, "ask")
     IN /\ active_orders' = r.active_orders
        /\ binance_orders' = r.binance_orders
  /\ managed' = managed \cup {"ask"}
  /\ cycle' = "completed"
  /\ ob' = None
  /\ targets' = None
  /\ main_pc' = "sleep"
  /\ UNCHANGED <<is_running, strategy, binance_connected, lighter_connected>>
  /\ UNCHANGED <<listener_vars, calc_vars, caller_vars>>

\* A variant of the loop without the try/except: the error leaves start().
ExceptHandler_reraise ==
  /\ main_pc = "except"
  /\ ListenerSuspended
  /\ main_pc' = "crashed"
  /\ UNCHANGED <<is_running, active_orders, strategy, binance_connected,
                 lighter_connected, ob, targets, cycle, managed, binance_orders>>
  /\ UNCHANGED <<listener_vars, calc_vars, caller_vars>>

\* start() lines 41-43: `except Exception` logs, then `await asyncio.sleep(1)`
ExceptHandler ==
  /\ main_pc = "except"
  /\ ListenerSuspended
  /\ main_pc' = "sleep"
  /\ UNCHANGED <<is_running, active_orders, strategy, binance_connected,
                 lighter_connected, ob, targets, cycle, managed, binance_orders>>
  /\ UNCHANGED <<listener_vars, calc_vars, caller_vars>>

\* asyncio.sleep(1) returns
SleepDone ==
  /\ main_pc = "sleep"
  /\ ListenerSuspended
  /\ main_pc' = "loop"
  /\ UNCHANGED <<is_running, active_orders, strategy, binance_connected,
                 lighter_connected, ob, targets, cycle, managed, binance_orders>>
  /\ UNCHANGED <<listener_vars, calc_vars, caller_vars>>

\* ------------------------- BinanceClientWrapper.start_execution_listener
\* `async with ts as tscm`: the user socket opens, or the task dies
Subscribe ==
  /\ listener_pc = "subscribing"
  /\ MainSuspended
  /\ \/ listener_pc' = "recv"
     \/ listener_pc' = "dead"
  /\ UNCHANGED <<msg, hedge_params, delivered, received, hedges>>
  /\ UNCHANGED <<engine_vars, calc_vars, caller_vars>>

\* `msg = await tscm.recv()` returns a message, or raises and the task dies
Recv ==
  /\ listener_pc = "recv"
  /\ MainSuspended
  /\ \/ /\ delivered < MaxMsgs
        /\ \E m \in Messages :
             /\ msg' = m
             /\ received' = IF IsFill(m) THEN Append(received, m) ELSE received
        /\ delivered' = delivered + 1
        /\ listener_pc' = "filter"
     \/ /\ listener_pc' = "dead"
        /\ UNCHANGED <<msg, delivered, received>>
  /\ UNCHANGED <<hedge_params, hedges>>
  /\ UNCHANGED <<engine_vars, calc_vars, caller_vars>>

\* A variant of the listener that hands no further report to the callback
\* once a hedge has failed.
Filter_halts_after_failure ==
  /\ listener_pc = "filter"
  /\ MainSuspended
  /\ listener_pc' = IF /\ ListenerPasses(msg)
                       /\ \A k \in DOMAIN hedges : hedges[k].status # "failed"
                    THEN "callback" ELSE "sleep"
  /\ UNCHANGED <<msg, hedge_params, delivered, received, hedges>>
  /\ UNCHANGED <<engine_vars, calc_vars, caller_vars>>

\* lines 59-63: only an execution report of type TRADE reaches the callback
Filter ==
  /\ listener_pc = "filter"
  /\ MainSuspended
  /\ listener_pc' = IF ListenerPasses(msg) THEN "callback" ELSE "sleep"
  /\ UNCHANGED <<msg, hedge_params, delivered, received, hedges>>
  /\ UNCHANGED <<engine_vars, calc_vars, caller_vars>>

\* A variant of the listener that launches the callback as a task of its own
\* (create_task) and goes on without awaiting it.
OnFillSubmit_not_awaited ==
  /\ listener_pc = "callback"
  /\ MainSuspended
  /\ LET hp == get_hedge_order_details(msg)
     IN /\ hedge_params' = hp
        /\ hedges' = Append(hedges,
                       [fill     |-> msg,
                        side     |-> hp.side,
                        quantity |-> hp.quantity,
                        request  |-> lighter_create_order(hp.side, "MARKET",
                                                          hp.quantity),
                        status   |-> "pending"])
  /\ listener_pc' = "sleep"
  /\ UNCHANGED <<msg, delivered, received>>
  /\ UNCHANGED <<engine_vars, calc_vars, caller_vars>>

\* on_binance_fill lines 75-86: the hedge order is computed and
\* lighter.create_order is called; the handler awaits its answer
OnFillSubmit ==
  /\ listener_pc = "callback"
  /\ MainSuspended
  /\ LET hp == get_hedge_order_details(msg)
     IN /\ hedge_params' = hp
        /\ hedges' = Append(hedges,
                       [fill     |-> msg,
                        side     |-> hp.side,
                        quantity |-> hp.quantity,
                        request  |-> lighter_create_order(hp.side, "MARKET",
                                                          hp.quantity),
                        status   |-> "pending"])
  /\ listener_pc' = "await_hedge"
  /\ UNCHANGED <<msg, delivered, received>>
  /\ UNCHANGED <<engine_vars, calc_vars, caller_vars>>

\* A variant of on_binance_fill without the try/except: a create_order that
\* raises leaves the handler and the listener task with it.
HedgeReturn_uncaught ==
  /\ listener_pc = "await_hedge"
  /\ MainSuspended
  /\ \E outcome \in {"ok", "failed"} :
       /\ hedges' = [hedges EXCEPT ![Len(hedges)].status = outcome]
       /\ listener_pc' = IF outcome = "ok" THEN "sleep" ELSE "dead"
  /\ hedge_params' = on_fill_exit(hedge_params)
  /\ UNCHANGED <<msg, delivered, received>>
  /\ UNCHANGED <<engine_vars, calc_vars, caller_vars>>

\* A variant of on_binance_fill that writes the hedged fill into the slot of
\* its side once create_order has returned.
HedgeReturn_marks_slot ==
  /\ listener_pc = "await_hedge"
  /\ MainSuspended
  /\ \E outcome \in {"ok", "failed"} :
       /\ hedges' = [hedges EXCEPT ![Len(hedges)].status = outcome]
       /\ active_orders' =
            IF outcome = "ok"
            THEN [active_orders EXCEPT
                    ![IF hedges[Len(hedges)].fill.S = "BUY" THEN "bid" ELSE "ask"] =
                      [filled |-> hedges[Len(hedges)].fill.l]]
            ELSE active_orders
  /\ hedge_params' = on_fill_exit(hedge_params)
  /\ listener_pc' = "sleep"
  /\ UNCHANGED <<msg, delivered, received>>
  /\ UNCHANGED <<is_running, strategy, binance_connected, lighter_connected,
                 main_pc, ob, targets, cycle, managed, binance_orders>>
  /\ UNCHANGED <<calc_vars, caller_vars>>

\* lines 87-90: create_order returns and the result is logged, or it raises
\* and the error is logged; the handler returns, its locals are gone, and
\* the listener reaches `await asyncio.sleep(0.01)`
HedgeReturn ==
  /\ listener_pc = "await_hedge"
  /\ MainSuspended
  /\ \E outcome \in {"ok", "failed"} :
       hedges' = [hedges EXCEPT ![Len(hedges)].status = outcome]
  /\ hedge_params' = on_fill_exit(hedge_params)
  /\ listener_pc' = "sleep"
  /\ UNCHANGED <<msg, delivered, received>>
  /\ UNCHANGED <<engine_vars, calc_vars, caller_vars>>

\* asyncio.sleep(0.01) returns
ListenerSleepDone ==
  /\ listener_pc = "sleep"
  /\ MainSuspended
  /\ listener_pc' = "recv"
  /\ UNCHANGED <<msg, hedge_params, delivered, received, hedges>>
  /\ UNCHANGED <<engine_vars, calc_vars, caller_vars>>

MainStep ==
  \/ Start
  \/ BinanceConnect
  \/ LighterConnect
  \/ SpawnListener
  \/ LoopTest
  \/ GetOrderbookReturn
  \/ CheckBook
  \/ ManageBid
  \/ ManageAsk
  \/ ExceptHandler
  \/ SleepDone

ListenerStep ==
  \/ Subscribe
  \/ Recv
  \/ Filter
  \/ OnFillSubmit
  \/ HedgeReturn
  \/ ListenerSleepDone

Next == MainStep \/ ListenerStep

Spec == Init /\ [][Next]_vars

\* A caller invokes engine.stop() while the engine runs.  TradeEngine has no
\* attribute `stop`: the call raises AttributeError in the caller and leaves
\* the engine, its tasks and the adapters as they are.
StopCall ==
  /\ is_running
  /\ ~stop_called
  /\ MainSuspended
  /\ ListenerSuspended
  /\ stop_called' = TRUE
  /\ UNCHANGED <<engine_vars, listener_vars, calc_vars>>

StopNext == Next \/ StopCall

\* the engine together with a caller that stops it
StopSpec == Init /\ [][StopNext]_vars

\* ---------------------------------------------- runs of the quote calculator
\* fees and margin of the calculator runs, in thousandths: exactly
\* representable fractions, and 1.0 for the division by zero
FeeMilli == {0, 125, 500, 875, 1000}

CalcInputs ==
  {[bid |-> ParseFloat(Dec(b, 1)), ask |-> ParseFloat(Dec(a, 1)),
    self |-> ArbStrategy(ParseFloat(Dec(mp, 3)), ParseFloat(Dec(fm, 3)),
                         ParseFloat(Dec(ft, 3)))] :
     b \in 1..MaxPriceTenths, a \in 1..MaxPriceTenths,
     mp \in FeeMilli, fm \in FeeMilli, ft \in FeeMilli}

CalcInit ==
  /\ is_running = FALSE
  /\ active_orders = [bid |-> None, ask |-> None]
  /\ strategy = ConfigStrategy
  /\ binance_connected = FALSE
  /\ lighter_connected = FALSE
  /\ main_pc = "init"
  /\ ob = None
  /\ targets = None
  /\ cycle = "none"
  /\ managed = {}
  /\ binance_orders = [s \in Sides |-> {}]
  /\ listener_pc = "not_started"
  /\ msg = None
  /\ hedge_params = None
  /\ delivered = 0
  /\ received = <<>>
  /\ hedges = <<>>
  /\ calc_pc = "ready"
  /\ calc_in \in CalcInputs
  /\ calc_out = None
  /\ stop_called = FALSE

\* ArbStrategy(...).calculate_binance_maker_prices(bid, ask)
CalcRun ==
  /\ calc_pc = "ready"
  /\ calc_out' = calculate_binance_maker_prices(calc_in.self, calc_in.bid,
                                                calc_in.ask)
  /\ calc_pc' = "done"
  /\ UNCHANGED calc_in
  /\ UNCHANGED <<engine_vars, listener_vars, caller_vars>>

CalcNext == CalcRun

CalcSpec == CalcInit /\ [][CalcNext]_vars

\* the run returned targets for a book with bid < ask and fees, margin in [0,1)
CalcReturned == calc_pc = "done" /\ "raised" \notin DOMAIN calc_out

InUnit(f) == FLe(FZero, f) /\ FLt(f, FOne)

CalcValid ==
  /\ CalcReturned
  /\ FLt(FZero, calc_in.bid)
  /\ FLt(calc_in.bid, calc_in.ask)
  /\ InUnit(calc_in.self.min_profit_pct)
  /\ InUnit(calc_in.self.binance_fee_pct)
  /\ InUnit(calc_in.self.lighter_fee_pct)

AllFeesZero ==
  /\ calc_in.self.min_profit_pct = FZero
  /\ calc_in.self.binance_fee_pct = FZero
  /\ calc_in.self.lighter_fee_pct = FZero

AskMargin ==
  FSub(FMul(calc_out.ask, FSub(FOne, calc_in.self.binance_fee_pct)),
       FMul(calc_in.ask, FAdd(FOne, calc_in.self.lighter_fee_pct)))

BidMargin ==
  FSub(FMul(calc_in.bid, FSub(FOne, calc_in.self.lighter_fee_pct)),
       FMul(calc_out.bid, FAdd(FOne, calc_in.self.binance_fee_pct)))

\* C8: whenever targets are returned, ask_target*(1 - f_m) - A*(1 + f_t) >= m*A
\* and B*(1 - f_t) - bid_target*(1 + f_m) >= m*B.
C8_MarginLocked ==
  CalcReturned =>
    /\ FLe(FMul(calc_in.self.min_profit_pct, calc_in.ask), AskMargin)
    /\ FLe(FMul(calc_in.self.min_profit_pct, calc_in.bid), BidMargin)

\* The steps a task takes by itself: code between two awaits, and the
\* return of an asyncio.sleep.  Answers of the venues (connect,
\* get_orderbook, recv, create_order) are not among them.
MainCode ==
  \/ LoopTest
  \/ CheckBook
  \/ ManageBid
  \/ ManageAsk
  \/ ExceptHandler
  \/ SleepDone

ListenerCode ==
  \/ Filter
  \/ OnFillSubmit
  \/ ListenerSleepDone

\* The event loop runs every task that is ready as soon as the running task
\* reaches an await: a step that is ready again and again, each time the
\* other task is suspended, is taken.  No answer of a venue is assumed to
\* arrive.
FairSpec == Spec /\ SF_vars(MainCode) /\ SF_vars(ListenerCode)

\* ---------------------------------------------------------------- claims
\* the resting-order slot a fill of side S belongs to
SlotOf(S) == IF S = "BUY" THEN "bid" ELSE "ask"

\* C1: a fill delivered several times is hedged at most once: no two
\* lighter.create_order calls carry the same fill identity (order id, trade id).
C1_AtMostOneHedgePerFill ==
  \A a \in DOMAIN hedges : \A b \in DOMAIN hedges :
    FillId(hedges[a].fill) = FillId(hedges[b].fill) => a = b

\* what the engine still holds of a hedge intent: the handler's frame or the
\* engine's only record, active_orders
EngineRetains(intent) ==
  \/ hedge_params = intent
  \/ \E s \in Sides : active_orders[s] = intent

\* C2: after a failed hedge submission the intent (side, quantity) is still
\* held by the engine once the handler has returned.
C2_FailedIntentRetained ==
  \A a \in DOMAIN hedges :
    hedges[a].status = "failed" =>
      EngineRetains([side |-> hedges[a].side, quantity |-> hedges[a].quantity])

\* C3: each side has at most one live resting order on the quoting venue in
\* every reachable state, and active_orders changes only in a
\* manage_binance_order step.
C3_OneLivePerSide ==
  /\ [](\A s \in Sides : Cardinality(binance_orders[s]) <= 1)
  /\ [][active_orders' # active_orders
          => main_pc \in {"manage_bid", "manage_ask"}]_vars

\* C3 witness: a refresh cycle handled both sides while a fill's hedge was
\* in flight
C3_Witness ==
  /\ main_pc = "sleep"
  /\ cycle = "completed"
  /\ managed = {"bid", "ask"}
  /\ listener_pc = "await_hedge"
  /\ \A s \in Sides : Cardinality(binance_orders[s]) <= 1

\* C4: while the fill handler awaits lighter.create_order for a fill on a
\* side, the refresh loop does not run manage_binance_order for that side.
C4_NoRequoteWhileHedging ==
  listener_pc = "await_hedge" =>
    LET slot == SlotOf(hedges[Len(hedges)].fill.S)
    IN /\ ~(slot = "bid" /\ main_pc = "manage_bid")
       /\ ~(slot = "ask" /\ main_pc = "manage_ask")

\* C5: every TRADE report the listener receives leads to a
\* lighter.create_order call for that report: the calls follow the reports
\* one for one, and a report without its call gets it.
C5_EveryFillHedged ==
  /\ [](\A k \in DOMAIN hedges :
          k <= Len(received) /\ hedges[k].fill = received[k])
  /\ (Len(hedges) < Len(received)) ~> (Len(hedges) = Len(received))

\* C5 witness: a fill was hedged after an earlier hedge had failed and while
\* the refresh loop was in a cycle
C5_Witness ==
  /\ Len(hedges) >= 2
  /\ hedges[1].status = "failed"
  /\ hedges[2].fill = received[2]
  /\ main_pc = "await_ob"

\* C6: the hedge of a BUY fill is a SELL, the hedge of a SELL fill is a BUY,
\* and the quantity handed to lighter.create_order prints as the fill's last
\* filled quantity.
C6_HedgeMirrorsFill ==
  \A a \in DOMAIN hedges :
    LET h == hedges[a]
    IN /\ h.fill.S = "BUY" => h.side = "SELL" /\ h.request.side = "OrderSide.SELL"
       /\ h.fill.S = "SELL" => h.side = "BUY" /\ h.request.side = "OrderSide.BUY"
       /\ DecEq(FloatStr(h.quantity), h.fill.l)
       /\ h.request.call = "create_market_order"

\* C6 witness: a BUY fill and a SELL fill have both been hedged
C6_Witness ==
  \E a \in DOMAIN hedges : \E b \in DOMAIN hedges :
    /\ hedges[a].fill.S = "BUY" /\ hedges[a].side = "SELL"
    /\ hedges[b].fill.S = "SELL" /\ hedges[b].side = "BUY"

\* C9: after an update_quotes call that raised or returned early, the loop
\* of start() calls update_quotes again.
C9_LoopContinues ==
  (is_running /\ cycle \in {"raised", "skipped"} /\ main_pc \in {"except", "sleep"})
    ~> (main_pc = "await_ob")

\* C9 witness: a new cycle is under way after one that raised
C9_Witness == main_pc = "await_ob" /\ cycle = "raised" /\ is_running

\* a reference book that is missing or has no bids or no asks
EmptyBook(book) ==
  \/ book = None
  \/ Get(book, "bids", <<>>) = <<>>
  \/ Get(book, "asks", <<>>) = <<>>

\* C10: with a missing or one-sided reference book the cycle ends as a
\* skip: no targets, no manage_binance_order call, no change on the quoting
\* venue, and the error branch of the loop is not taken.
C10_EmptyBookSkips ==
  [][(main_pc = "check_book" /\ EmptyBook(ob))
       => /\ main_pc' = "sleep"
          /\ cycle' = "skipped"
          /\ targets' = None
          /\ managed' = {}
          /\ binance_orders' = binance_orders
          /\ active_orders' = active_orders]_vars

\* C10 witness: a cycle that was skipped
C10_Witness ==
  /\ main_pc = "sleep"
  /\ cycle = "skipped"
  /\ managed = {}
  /\ targets = None

\* the step of update_quotes that calls manage_binance_order for a side
ManageStep(s) ==
  IF s = "bid"
  THEN main_pc = "manage_bid" /\ main_pc' = "manage_ask"
  ELSE main_pc = "manage_ask" /\ main_pc' = "sleep"

\* the target update_quotes hands to manage_binance_order for a side
TargetOf(s) == IF s = "bid" THEN targets.bid ELSE targets.ask

\* C11: when no order rests for a side and the cycle has computed targets
\* from a non-empty book, the manage_binance_order step places a maker order
\* at the side's target on the quoting venue and the side's slot in
\* active_orders is no longer empty.
C11_EmptySlotPlaces ==
  [][\A s \in Sides :
       (ManageStep(s) /\ active_orders[s] = None /\ binance_orders[s] = {})
         => /\ active_orders'[s] # None
            /\ \E o \in binance_orders'[s] : o.price = TargetOf(s)]_vars

\* the tolerance of the drift policy (0.05%)
drift_threshold == ParseFloat(Dec(5, 4))

FAbs(x) == Only({[m |-> Abs(a.m), e |-> a.e] : a \in {x}})

\* |price0 - target| / price0 <= drift_threshold
WithinDrift(price0, target) ==
  FLe(FDiv(FAbs(FSub(price0, target)), price0), drift_threshold)

\* C12: drift policy.  In a cycle that follows a completed one an order is
\* Live for the side at some price0; the manage_binance_order step then
\* leaves it alone when the new target is within drift_threshold of price0
\* (NoOp) and otherwise replaces it by one order at the target (Replace).
C12_DriftPolicy ==
  [][\A s \in Sides :
       (ManageStep(s) /\ cycle = "completed")
         => /\ active_orders[s] # None
            /\ IF WithinDrift(active_orders[s].price, TargetOf(s))
               THEN /\ active_orders'[s] = active_orders[s]
                    /\ binance_orders'[s] = binance_orders[s]
               ELSE /\ active_orders'[s] # None
                    /\ active_orders'[s].price = TargetOf(s)
                    /\ \A o \in binance_orders'[s] : o.price = TargetOf(s)
                    /\ Cardinality(binance_orders'[s]) = 1]_vars

\* the positions of start() inside `while self.is_running`
LoopPcs ==
  {"loop", "await_ob", "check_book", "manage_bid", "manage_ask", "except", "sleep"}

\* the positions of a listener task that has been created and has not ended
ListenerAlivePcs ==
  {"subscribing", "recv", "filter", "callback", "await_hedge", "sleep"}

\* C14: nothing but the connects happens before both adapters are connected:
\* no get_orderbook call, no book, no cycle, no listener task, no received
\* message and no create_order call; once the loop and the listener run, the
\* loop never ends and the listener ends only when opening or reading the
\* user socket fails.
C14_ConnectThenKeepAlive ==
  /\ []((\/ main_pc \in LoopPcs \cup {"spawn", "stopped"}
         \/ listener_pc # "not_started"
         \/ ob # None \/ cycle # "none" \/ managed # {}
         \/ delivered > 0 \/ hedges # <<>>)
        => (binance_connected /\ lighter_connected))
  /\ [][/\ main_pc \in LoopPcs => main_pc' \in LoopPcs
        /\ (listener_pc \in ListenerAlivePcs /\ listener_pc' \notin ListenerAlivePcs)
             => (listener_pc \in {"subscribing", "recv"} /\ listener_pc' = "dead")]_vars

\* C14 witness: both adapters connected, the loop inside a later cycle and
\* the listener awaiting its second hedge
C14_Witness ==
  /\ binance_connected /\ lighter_connected
  /\ main_pc = "manage_bid"
  /\ cycle = "completed"
  /\ listener_pc = "await_hedge"
  /\ Len(hedges) = 2

\* C15: after stop() both adapters are disconnected, the refresh loop runs no
\* further update_quotes cycle and the listener runs no further fill callback.
C15_StopStopsAll ==
  /\ [](stop_called => (~binance_connected /\ ~lighter_connected))
  /\ [](stop_called => (main_pc \notin LoopPcs /\ listener_pc \notin ListenerAlivePcs))
  /\ [][stop_called => (hedges' = hedges /\ cycle' = cycle /\ managed' = managed)]_vars

\* the step in which lighter.create_order raises inside on_binance_fill
HedgeFailsStep ==
  /\ listener_pc = "await_hedge"
  /\ Len(hedges') = Len(hedges)
  /\ hedges'[Len(hedges)].status = "failed"

\* C16: an error inside update_quotes is caught by the loop of start() and
\* an error of lighter.create_order is caught inside on_binance_fill: the
\* step of the error and the handling after it leave the refresh loop
\* inside its loop and the listener task alive, and after a cycle that
\* raised the loop is still running.
C16_ErrorsCaught ==
  /\ [][/\ main_pc = "except"
             => (main_pc' \in {"except", "sleep"} /\ listener_pc' = listener_pc)
        /\ HedgeFailsStep
             => (listener_pc' = "sleep" /\ main_pc' = main_pc)]_vars
  /\ [](cycle = "raised" => main_pc \in LoopPcs)
  /\ []((hedges # <<>> /\ listener_pc = "dead")
          => hedges[Len(hedges)].status # "pending")

\* C16 witness: an update_quotes call has raised and a hedge has failed; the
\* loop is in its next cycle and the listener is receiving again
C16_Witness ==
  /\ cycle = "raised"
  /\ main_pc = "await_ob"
  /\ hedges # <<>>
  /\ hedges[Len(hedges)].status = "failed"
  /\ listener_pc = "recv"

\* a lighter.create_order call of the fill handler is unanswered
HedgeSubmitting ==
  /\ hedges # <<>>
  /\ hedges[Len(hedges)].status = "pending"

\* C17: a hedge submission does not stay pending for ever: a handler that
\* has called lighter.create_order gets to the confirmed or to the failed
\* outcome, answered by the venue or not.
C17_HedgeSettles ==
  HedgeSubmitting ~> (hedges # <<>> /\ hedges[Len(hedges)].status \in {"ok", "failed"})

\* some lighter.create_order call of the fill handler has raised
SomeHedgeFailed == \E k \in DOMAIN hedges : hedges[k].status = "failed"

\* C19: a hedge that fails does not stop the hedges after it.  When
\* lighter.create_order raises, on_binance_fill returns to the listener,
\* which goes on to its sleep and to the next recv; the create_order call
\* after a failed one is for the next TRADE report received, and a TRADE
\* report received after a failure gets its call.
C19_FailedHedgeDoesNotBlock ==
  /\ [][HedgeFailsStep => (listener_pc' = "sleep" /\ hedge_params' = None)]_vars
  /\ [](\A k \in DOMAIN hedges :
          (hedges[k].status = "failed" /\ k < Len(hedges))
            => hedges[k + 1].fill = received[k + 1])
  /\ (SomeHedgeFailed /\ listener_pc = "sleep") ~> (listener_pc = "recv")
  /\ (SomeHedgeFailed /\ Len(hedges) < Len(received))
       ~> (Len(hedges) = Len(received))

\* C19 witness: the first hedge failed, the next TRADE report was received
\* and its hedge was submitted and answered
C19_Witness ==
  /\ Len(hedges) = 2
  /\ hedges[1].status = "failed"
  /\ hedges[2].fill = received[2]
  /\ hedges[2].status = "ok"
  /\ listener_pc = "sleep"

\* the lighter.create_order calls that have not been answered
InFlight == {k \in DOMAIN hedges : hedges[k].status = "pending"}

\* C20: fills are hedged one at a time and in delivery order.  At most one
\* lighter.create_order call is unanswered, it is the latest one and the
\* listener is inside `await callback(msg)` for it, so the listener is not at
\* recv meanwhile; the k-th create_order call is for the k-th TRADE report
\* received.
C20_OneHedgeInDeliveryOrder ==
  /\ Cardinality(InFlight) <= 1
  /\ \A k \in InFlight : k = Len(hedges) /\ listener_pc = "await_hedge"
  /\ \A k \in DOMAIN hedges :
       /\ k <= Len(received)
       /\ FillId(hedges[k].fill) = FillId(received[k])
  /\ Len(received) - Len(hedges) \in {0, 1}

\* C20 witness: two different fills were received; the hedge of the first
\* was answered before the hedge of the second, now in flight, was submitted
C20_Witness ==
  /\ Len(hedges) = 2
  /\ FillId(received[1]) # FillId(received[2])
  /\ hedges[1].fill = received[1]
  /\ hedges[1].status # "pending"
  /\ hedges[2].fill = received[2]
  /\ InFlight = {2}

\* C21: only fills trigger a hedge.  The callback runs for a message only if
\* it is an execution report of execution type TRADE: every
\* lighter.create_order call carries such a report, and the step that
\* filters any other message sends the listener to its sleep with no call
\* made.
C21_OnlyFillsHedged ==
  /\ [](\A k \in DOMAIN hedges : IsFill(hedges[k].fill))
  /\ [](listener_pc \in {"callback", "await_hedge"} => IsFill(msg))
  /\ [](Len(hedges) <= Len(received))
  /\ [][(listener_pc = "filter" /\ ~IsFill(msg))
          => (listener_pc' = "sleep" /\ hedges' = hedges)]_vars

\* C21 witness: a fill was hedged, then a report that is not a fill was
\* delivered and filtered out with no further create_order call
C21_Witness ==
  /\ delivered = 2
  /\ Len(received) = 1
  /\ Len(hedges) = 1
  /\ msg # None
  /\ Get(msg, "e", "None") = "executionReport"
  /\ ~IsFill(msg)
  /\ listener_pc = "sleep"

\* a decimal of at most two places, in hundredths
Hundredths(d) == d.n * 10^(2 - d.k)

\* what a create_order call sells on the reference venue, in hundredths
\* (negative for a BUY)
HedgedQty(h) ==
  (IF h.request.side = "OrderSide.SELL" THEN 1 ELSE -1)
    * Hundredths(h.request.human_readable_size)

\* what a fill buys on the quoting venue, in hundredths (negative for a SELL)
FilledQty(m) == (IF m.S = "BUY" THEN 1 ELSE -1) * Hundredths(m.l)

\* net quantity hedged by the first k create_order calls
RECURSIVE NetHedged(_)
NetHedged(k) == IF k = 0 THEN 0 ELSE NetHedged(k - 1) + HedgedQty(hedges[k])

\* net quantity filled by the first k TRADE reports received
RECURSIVE NetFilled(_)
NetFilled(k) == IF k = 0 THEN 0 ELSE NetFilled(k - 1) + FilledQty(received[k])

\* the TRADE reports received are distinct fills and each has its hedge,
\* answered without error
AllDistinctAndHedged ==
  /\ Len(hedges) = Len(received)
  /\ \A k \in DOMAIN hedges : hedges[k].status = "ok"
  /\ \A a \in DOMAIN received : \A b \in DOMAIN received :
       FillId(received[a]) = FillId(received[b]) => a = b

\* C22: quantity conservation.  After distinct fills whose hedges all
\* succeeded, the net quantity sent to the reference venue (SELL minus BUY)
\* equals the net quantity filled on the quoting venue (BUY minus SELL).
C22_QuantityConserved ==
  AllDistinctAndHedged => NetHedged(Len(hedges)) = NetFilled(Len(received))

\* C22 witness: two partial fills of one order, each hedged by its own
\* last filled quantity, and both hedges succeeded
C22_Witness ==
  /\ AllDistinctAndHedged
  /\ Len(received) = 2
  /\ received[1].i = received[2].i
  /\ received[1].X = "PARTIALLY_FILLED"
  /\ NetFilled(2) = 80
  /\ NetHedged(2) = 80

\* the targets update_quotes computes from a book
TargetsFrom(book) ==
  calculate_binance_maker_prices(strategy, BestPrices(book).best_bid,
                                 BestPrices(book).best_ask)

\* C23: within one cycle both sides are managed from one snapshot, bid
\* first.  While a side is handled the targets are the pair computed from
\* the one book this cycle fetched, and the bid step changes neither; the
\* ask side is reached only by the normal return of the bid step, so a cycle
\* in which the bid step does not return (it raises) does not handle the
\* ask side, and a cycle that raised has handled no ask.
C23_OneSnapshotBidThenAsk ==
  /\ [](main_pc \in {"manage_bid", "manage_ask"}
          => (ob # None /\ ~BookUnusable(ob) /\ targets = TargetsFrom(ob)))
  /\ [](main_pc = "manage_bid" => managed = {})
  /\ [](main_pc = "manage_ask" => managed = {"bid"})
  /\ []("ask" \in managed => "bid" \in managed)
  /\ [](main_pc = "except" => "ask" \notin managed)
  /\ [][ManageStep("bid") => (targets' = targets /\ ob' = ob)]_vars
  /\ [][(main_pc' = "manage_ask" /\ main_pc # "manage_ask")
          => main_pc = "manage_bid"]_vars

\* C23 witness: the bid side has been handled and the ask side is about to
\* be, with the targets of the two-level book fetched in this cycle
C23_Witness ==
  /\ main_pc = "manage_ask"
  /\ managed = {"bid"}
  /\ ob # None
  /\ Len(ob.bids) = 2
  /\ targets = TargetsFrom(ob)
  /\ cycle = "completed"

\* C24: the fill handler leaves the resting-order record untouched.  No
\* step of the listener task, the hedge answered or failed, changes
\* active_orders, and with the refresh cycles as they are active_orders
\* keeps its initial value {bid: None, ask: None}.
C24_FillLeavesActiveOrders ==
  /\ [][listener_pc' # listener_pc => active_orders' = active_orders]_vars
  /\ [][hedges' # hedges => active_orders' = active_orders]_vars
  /\ [](active_orders = [bid |-> None, ask |-> None])

\* C24 witness: a hedge has succeeded, another has failed and a refresh
\* cycle has completed
C24_Witness ==
  /\ Len(hedges) = 2
  /\ \E k \in DOMAIN hedges : hedges[k].status = "ok"
  /\ \E k \in DOMAIN hedges : hedges[k].status = "failed"
  /\ cycle = "completed"
  /\ managed = {"bid", "ask"}
  /\ active_orders = [bid |-> None, ask |-> None]

====
